---- MODULE Spec2Model ----
(***************************************************************************)
(* A model of the anti-spam bot's core: the violation ledger kept by       *)
(* DatabaseManager (violations table), the punishment tiering of           *)
(* PunishmentManager.handle_spam, and the daily quota RateLimiter with its *)
(* api_usage table, and the message pipeline of MessageHandler that joins   *)
(* them: filter, whitelist gate, quota check, classifier, commit, dry-run  *)
(* switch and the ChatAdapter calls of the punishment.                     *)
(*                                                                         *)
(* Handlers are asyncio coroutines: a step of the model is the code one    *)
(* coroutine runs between two suspension points.  All database calls go    *)
(* through one aiosqlite connection, whose worker thread executes the      *)
(* statements in the order they were issued: a statement takes effect in   *)
(* the step that issues it and the coroutine resumes in a later step.      *)
(***************************************************************************)
EXTENDS Integers, Sequences, FiniteSets, TLC

\* ------------------------------------------------------------------ bounds
NumHandlers == 2      \* message handlers that can be in flight at once
NumUsers == 2         \* distinct senders
MaxSpam == 4          \* spam events handled in one sequential run of the ledger
MaxRaceSpam == 2      \* spam events handled in one concurrent run of the ledger
TickDays == 30        \* days the ledger's clock advances in one step
MaxNow == 90          \* last instant of the clock in a sequential run, in days
MaxRaceNow == 60      \* last instant of the clock in a concurrent run, in days
MaxDay == 2           \* last calendar day of the limiter's clock
MaxRestarts == 1      \* process restarts in one run
daily_limit == 2      \* config['daily_api_limit'], the limit N
MaxMessages == 3      \* messages handled in one run of the pipeline
MaxPipeDay == 1       \* last calendar day of a run of the pipeline
MaxLoud == 2          \* the count of loud log events saturates here
MaxEscSpam == 4       \* spam events of one user in a run of its concurrent escalation
MaxCommands == 3      \* admin commands received in one run
MaxAdminSpam == 2     \* spam events handled in one run with admin commands
MaxAdminNow == 30     \* last instant of the clock in a run with admin commands

\* ------------------------------------------------------- program constants
RetentionDays == 30   \* timedelta(days=30) in increment_violation
spam_threshold == 8   \* config.setdefault('spam_threshold', 8.0)

Handlers == 1..NumHandlers
Users == 1..NumUsers

NoViolation == [violation_count |-> 0, reset_at |-> 0]
NoAnswer == [fn |-> "none", value |-> 0, day |-> 0, basis |-> 0, commits |-> 0]
NoRemaining == [fn |-> "none", value |-> 0, day |-> 0, basis |-> 0, count |-> 0]

\* what a handler knows of the message it is handling: kind, is_spam and
\* score are locals of handle_message; the other fields are history: the
\* gate that stopped the message or the way its handling ended, how the
\* classifier call ended and the score of its response, the calls of the
\* outcome of the increment's database write, the calls of the classifier
\* and of increment made
\* for the message, the ChatAdapter calls requested (and the order in which
\* they were issued) and those that raised,
\* whether the sender had a record and whether today's count had reached
\* the limit when the handling started
NoCmd == [name |-> "none", by |-> 0, target |-> 0, had |-> FALSE]

NoMsg == [kind |-> "none", gate |-> "none", is_spam |-> FALSE, score |-> 0,
          resp |-> "none", raw |-> 0, write |-> "none",
          called |-> 0, committed |-> 0, requested |-> {}, failed |-> {},
          order |-> <<>>,
          norecord |-> FALSE, late |-> FALSE]

VARIABLES
    \* the clock: datetime.now() in days; date.today() is the same number
    now,
    \* DatabaseManager: the violations table in rowid order, the spam_logs
    \* table, the api_usage table (day -> count, -1 where no row exists)
    violations, spam_logs, api_usage,
    \* RateLimiter: self._today, self._count, self._initialized
    rl_today, rl_count, rl_initialized,
    \* the process: "running" once initialize() has returned
    proc,
    \* one coroutine per handler: its position and its locals
    pc, user, violation, iv_now, new_count, action, fn, today, loaded,
    \* history (not program state): what the claims are stated over
    cleanupNow, prior, expiredAtIssue, afterReset, removed, nOther,
    stored, lastOp, spamCount,
    answer, remaining, countDay, commits, calls, dayClean, restarts, restartedToday, fresh,
    \* MessageHandler: self.dry_run, self.enable_whitelist; WhitelistManager:
    \* self.whitelist, self.admin_ids
    dry_run, enable_whitelist, whitelist, admin_ids,
    \* the whitelist as config.yaml holds it, and the replies sent by the
    \* command handlers
    saved, replies,
    \* history: the last admin command received and the number of them
    cmd, cmdCount,
    \* the platform behind the ChatAdapter: each user's standing in the group
    chat,
    \* one per handler: the message in hand (NoMsg when idle)
    msg,
    \* history: the loud log events of today, whether today's count has
    \* reached the limit, the messages handled
    loud, reached, msgCount

ledgerVars == <<violations, spam_logs, user, violation, iv_now, new_count, action,
                cleanupNow, prior, expiredAtIssue, afterReset, removed,
                nOther, stored, lastOp, spamCount>>
limiterVars == <<api_usage, rl_today, rl_count, rl_initialized, proc, fn, today,
                 loaded, answer, remaining, countDay, commits, calls, dayClean, restarts,
                 restartedToday, fresh>>
\* the ledger's variables but the handlers' user
ledgerRest == <<violations, spam_logs, violation, iv_now, new_count, action,
                cleanupNow, prior, expiredAtIssue, afterReset, removed,
                nOther, stored, lastOp, spamCount>>
\* the MessageHandler's configuration, the WhitelistManager's sets and what
\* else only the admin commands change
configVars == <<dry_run, enable_whitelist, whitelist, admin_ids, saved, replies,
                cmd, cmdCount>>
pipeVars == <<configVars, chat, msg, loud, reached, msgCount>>
vars == <<now, pc, ledgerVars, limiterVars, pipeVars>>

\* ------------------------------------------------------------ the ledger

\* SELECT * FROM violations WHERE user_id = ? ; fetchone(): the first row
\* of the user in rowid order, 0 when there is none.
FirstRow(rows, u) ==
    IF \E i \in DOMAIN rows : rows[i].user_id = u
    THEN CHOOSE i \in DOMAIN rows :
            /\ rows[i].user_id = u
            /\ \A j \in DOMAIN rows : rows[j].user_id = u => i <= j
    ELSE 0

HasRow(rows, u) == FirstRow(rows, u) # 0

\* the Violation get_violation builds from the fetched row, None as NoViolation
Fetch(rows, u) ==
    IF HasRow(rows, u)
    THEN [violation_count |-> rows[FirstRow(rows, u)].violation_count,
          reset_at |-> rows[FirstRow(rows, u)].reset_at]
    ELSE NoViolation

StoredCount(rows, u) == Fetch(rows, u).violation_count

\* DELETE FROM violations WHERE reset_at < ?  with datetime.now()
CleanupKeepsAll(rows, t) == rows
CleanupThrough(rows, t) == SelectSeq(rows, LAMBDA r : ~(r.reset_at <= t))
CleanupExpired(rows, t) == SelectSeq(rows, LAMBDA r : ~(r.reset_at < t))

\* DELETE FROM violations WHERE user_id = ?
DeleteDecrements(rows, u) ==
    SelectSeq([i \in DOMAIN rows |->
                  IF rows[i].user_id = u
                  THEN [rows[i] EXCEPT !.violation_count = @ - 1]
                  ELSE rows[i]],
              LAMBDA r : r.violation_count > 0)
DeleteEveryone(rows, u) == <<>>
DeleteUser(rows, u) == SelectSeq(rows, LAMBDA r : r.user_id # u)

\* new_count of increment_violation: violation.violation_count + 1, or 1
NewCount(v) == IF v = NoViolation THEN 1 ELSE v.violation_count + 1

\* UPDATE violations SET violation_count, last_violation_time, reset_at
\* WHERE user_id = ?   (every row of the user; none if it has gone)
UpdateAllUsers(rows, u, c, t) ==
    [i \in DOMAIN rows |->
        [rows[i] EXCEPT !.violation_count = c,
                        !.last_violation_time = t,
                        !.reset_at = t + RetentionDays]]
UpdateUser(rows, u, c, t) ==
    [i \in DOMAIN rows |->
        IF rows[i].user_id = u
        THEN [rows[i] EXCEPT !.violation_count = c,
                             !.last_violation_time = t,
                             !.reset_at = t + RetentionDays]
        ELSE rows[i]]

\* INSERT INTO violations (user_id, violation_count, last_violation_time, reset_at)
InsertRow(rows, u, c, t) ==
    Append(rows, [user_id |-> u, violation_count |-> c,
                  last_violation_time |-> t, reset_at |-> t + RetentionDays])

\* the action handle_spam dispatches for a violation count
TierKickLate(count) ==
    IF count = 1 THEN "warning" ELSE IF count <= 3 THEN "kick" ELSE "ban"
Tier(count) ==
    IF count = 1 THEN "warning" ELSE IF count = 2 THEN "kick" ELSE "ban"

\* the history's name for a reset of a user whose stored count was c
ResetOf(last, c) ==
    IF last # "other" THEN "reset_again"
    ELSE IF c >= 2 THEN "reset_many" ELSE "reset"

\* log_spam: INSERT INTO spam_logs (user_id, ..., llm_score, action)
LogSpamOver(logs, u, s, a) == <<[user_id |-> u, llm_score |-> s, action |-> a]>>
LogSpam(logs, u, s, a) == Append(logs, [user_id |-> u, llm_score |-> s, action |-> a])

\* handlers between their own cleanup and their own write
InIncrement(g) == pc[g] \in {"iv_select", "iv_stamp", "iv_write"}

\* the rows of one user, and the records the claims call unexpired at time t
RowsOf(rows, u) == SelectSeq(rows, LAMBDA r : r.user_id = u)
Unexpired(rows, t) == SelectSeq(rows, LAMBDA r : r.reset_at >= t)
Expired(rows, t) == SelectSeq(rows, LAMBDA r : r.reset_at < t)

\* ----------------------------------------------------- the ChatAdapter

\* how a ChatAdapter call ends: it returns, or the bot library raises its
\* TelegramError (every failure of a request is raised as one)
Outcomes == {"ok", "TelegramError"}

\* `except TelegramError` around each ChatAdapter call of PunishmentManager
SwallowsNothing(e) == FALSE
Swallowed(e) == e = "TelegramError"

Raises(e) == e # "ok" /\ ~Swallowed(e)

\* ban_chat_member: the user is removed and cannot come back
Ban(c, u) == [c EXCEPT ![u] = "banned"]
\* unban_chat_member(only_if_banned=False): the user is removed from the
\* group and may join again (a ban on the user is lifted)
KickForGood(c, u) == [c EXCEPT ![u] = "banned"]
Kick(c, u) == [c EXCEPT ![u] = "kicked"]

\* the ChatAdapter calls handle_spam makes for tier t: the deletion, then the
\* notice of a warning, or the kick / ban followed, if it succeeded, by a notice
RequestedNoNotice(t, d, p) == {"delete"}
Requested(t, d, p) ==
    {"delete"} \cup
    (IF Raises(d) THEN {}
     ELSE IF t = "warning" THEN {"notice"}
     ELSE {t} \cup (IF p = "ok" THEN {"notice"} ELSE {}))

\* the same calls in the order in which handle_spam issues them: each is
\* awaited before the next statement runs
CallsRetried(t, d, p) ==
    IF t = "warning" /\ p # "ok" THEN <<"delete", "notice", "notice">>
    ELSE <<"delete", "notice">>
CallsNoticeFirst(t, d, p) ==
    IF t = "warning" THEN <<"notice", "delete">> ELSE <<"notice", "delete", t>>
Calls(t, d, p) ==
    <<"delete">> \o
    (IF Raises(d) THEN <<>>
     ELSE IF t = "warning" THEN <<"notice">>
     ELSE <<t>> \o (IF p = "ok" THEN <<"notice">> ELSE <<>>))

\* the calls among them that raised
Failed(t, d, p, n) ==
    (IF d # "ok" THEN {"delete"} ELSE {}) \cup
    (IF Raises(d) THEN {}
     ELSE IF t = "warning" THEN (IF p # "ok" THEN {"notice"} ELSE {})
     ELSE IF p # "ok" THEN {t}
     ELSE IF n # "ok" THEN {"notice"} ELSE {})

\* an exception leaves handle_spam
Propagates(t, d, p, n) ==
    \/ Raises(d)
    \/ Raises(p)
    \/ (t # "warning" /\ p = "ok" /\ Raises(n))

\* the platform after the calls of tier t
ChatAfter(c, u, t, d, p) ==
    IF Raises(d) \/ p # "ok" \/ t = "warning" THEN c
    ELSE IF t = "kick" THEN Kick(c, u)
    ELSE Ban(c, u)

\* handle_spam is entered for a message of user u that was classified as spam
\* (llm_score at the threshold);
\* it runs into increment_violation -> get_violation -> _cleanup_expired_violations
\* and suspends there on the cursor.  The coroutines are interchangeable: the
\* idle one with the lowest number takes the event.
HandleSpam(h, u) ==
    /\ pc[h] = "idle"
    /\ \A g \in Handlers : pc[g] = "idle" => h <= g
    /\ pc' = [pc EXCEPT ![h] = "iv_cleanup"]
    /\ user' = [user EXCEPT ![h] = u]
    /\ spamCount' = spamCount + 1
    /\ msg' = [msg EXCEPT ![h] = [NoMsg EXCEPT !.is_spam = TRUE, !.score = spam_threshold]]
    /\ UNCHANGED <<now, violations, spam_logs, violation, iv_now, new_count, action,
                   cleanupNow, prior, expiredAtIssue, afterReset,
                   removed, nOther, stored, lastOp, limiterVars, configVars, chat,
                   loud, reached, msgCount>>

\* _cleanup_expired_violations: the DELETE of every expired row, of any user
IvCleanup(h) ==
    /\ pc[h] = "iv_cleanup"
    /\ LET kept == CleanupExpired(violations, now)
           lost(u) == RowsOf(kept, u) # RowsOf(violations, u)
       IN  /\ violations' = kept
           /\ removed' = [g \in Handlers |->
                            IF g = h THEN FALSE
                            ELSE removed[g] \/ (InIncrement(g) /\ lost(user[g]))]
           /\ lastOp' = [u \in Users |->
                            IF lost(u)
                            THEN "other"
                            ELSE lastOp[u]]
    /\ cleanupNow' = [cleanupNow EXCEPT ![h] = now]
    /\ prior' = [prior EXCEPT ![h] = StoredCount(Unexpired(violations, now), user[h])]
    /\ expiredAtIssue' = [expiredAtIssue EXCEPT ![h] =
                            StoredCount(Expired(violations, now), user[h])]
    /\ afterReset' = [afterReset EXCEPT ![h] = lastOp[user[h]]]
    /\ nOther' = [nOther EXCEPT ![h] = 0]
    /\ pc' = [pc EXCEPT ![h] = "iv_select"]
    /\ UNCHANGED <<now, spam_logs, user, violation, iv_now, new_count, action,
                   stored, spamCount, limiterVars, pipeVars>>

\* get_violation: the SELECT and fetchone
IvSelect(h) ==
    /\ pc[h] = "iv_select"
    /\ violation' = [violation EXCEPT ![h] = Fetch(violations, user[h])]
    /\ pc' = [pc EXCEPT ![h] = "iv_stamp"]
    /\ UNCHANGED <<now, violations, spam_logs, user, iv_now, new_count, action,
                   cleanupNow, prior, expiredAtIssue, afterReset, removed, nOther,
                   stored, lastOp, spamCount, limiterVars, pipeVars>>

\* increment_violation after get_violation returned: now = datetime.now(),
\* reset_at = now + 30 days; then it suspends on the cursor
IvStamp(h) ==
    /\ pc[h] = "iv_stamp"
    /\ iv_now' = [iv_now EXCEPT ![h] = now]
    /\ pc' = [pc EXCEPT ![h] = "iv_write"]
    /\ UNCHANGED <<now, violations, spam_logs, user, violation, new_count, action,
                   cleanupNow, prior, expiredAtIssue, afterReset,
                   removed, nOther, stored, lastOp, spamCount, limiterVars, pipeVars>>

\* increment_violation: the UPDATE of the user's rows or the INSERT of a new
\* one, with the count computed from the Violation read before; returns new_count
IvWrite(h) ==
    /\ pc[h] = "iv_write"
    /\ LET u == user[h]
           c == NewCount(violation[h])
           rows == IF violation[h] # NoViolation
                   THEN UpdateUser(violations, u, c, iv_now[h])
                   ELSE InsertRow(violations, u, c, iv_now[h])
       IN  /\ violations' = rows
           /\ new_count' = [new_count EXCEPT ![h] = c]
           /\ stored' = [stored EXCEPT ![h] = StoredCount(rows, u)]
           /\ nOther' = [g \in Handlers |->
                            IF g # h /\ InIncrement(g) /\ user[g] = u
                            THEN nOther[g] + 1 ELSE nOther[g]]
           /\ lastOp' = [lastOp EXCEPT ![u] = "other"]
    /\ pc' = [pc EXCEPT ![h] = "hs_punish"]
    /\ UNCHANGED <<now, spam_logs, user, violation, iv_now, action, cleanupNow,
                   prior, expiredAtIssue, afterReset, removed,
                   spamCount, limiterVars, pipeVars>>

\* handle_spam after increment_violation returned: message.delete(), then the
\* call dispatched for violation_count (_warn_user, _kick_user, _ban_user),
\* each ChatAdapter call ending as d (the deletion), p (the warning's notice,
\* the kick or the ban) and n (the notice after a kick or a ban).  An
\* exception that is not swallowed leaves handle_spam and is logged by
\* handle_message, which ends.
Punish(h, d, p, n) ==
    /\ pc[h] = "hs_punish"
    /\ LET t == Tier(new_count[h])
           left == Propagates(t, d, p, n)
       IN  /\ msg' = [msg EXCEPT ![h].requested = Requested(t, d, p),
                                 ![h].order = Calls(t, d, p),
                                 ![h].failed = Failed(t, d, p, n),
                                 ![h].gate = IF left THEN "error" ELSE @]
           /\ chat' = ChatAfter(chat, user[h], t, d, p)
           /\ IF left
              THEN /\ pc' = [pc EXCEPT ![h] = "hm_return"]
                   /\ UNCHANGED action
              ELSE /\ pc' = [pc EXCEPT ![h] = "hs_log"]
                   /\ action' = [action EXCEPT ![h] = t]
    /\ violation' = [violation EXCEPT ![h] = NoViolation]
    /\ iv_now' = [iv_now EXCEPT ![h] = 0]
    /\ cleanupNow' = [cleanupNow EXCEPT ![h] = 0]
    /\ prior' = [prior EXCEPT ![h] = 0]
    /\ expiredAtIssue' = [expiredAtIssue EXCEPT ![h] = 0]
    /\ afterReset' = [afterReset EXCEPT ![h] = "other"]
    /\ removed' = [removed EXCEPT ![h] = FALSE]
    /\ nOther' = [nOther EXCEPT ![h] = 0]
    /\ stored' = [stored EXCEPT ![h] = 0]
    /\ UNCHANGED <<now, violations, spam_logs, user, new_count, lastOp, spamCount,
                   limiterVars, configVars, loud, reached, msgCount>>

HsPunish(h) == \E d \in Outcomes, p \in Outcomes, n \in Outcomes : Punish(h, d, p, n)

\* handle_spam: log_spam appends the event and the call returns the action
\* to its caller; handle_message logs it and is about to return
HsLog(h) ==
    /\ pc[h] = "hs_log"
    /\ spam_logs' = LogSpam(spam_logs, user[h], msg[h].score, action[h])
    /\ IF msg[h].kind = "none"
       THEN /\ pc' = [pc EXCEPT ![h] = "idle"]
            /\ user' = [user EXCEPT ![h] = 0]
            /\ new_count' = [new_count EXCEPT ![h] = 0]
            /\ action' = [action EXCEPT ![h] = "none"]
            /\ msg' = [msg EXCEPT ![h] = NoMsg]
       ELSE /\ pc' = [pc EXCEPT ![h] = "hm_return"]
            /\ msg' = [msg EXCEPT ![h].gate = "punished"]
            /\ UNCHANGED <<user, new_count, action>>
    /\ UNCHANGED <<now, violations, violation, iv_now, cleanupNow, prior,
                   expiredAtIssue, afterReset, removed, nOther, stored, lastOp,
                   spamCount, limiterVars, configVars, chat, loud, reached, msgCount>>

\* handle_message returns, from any of its return statements or from its
\* `except Exception` block: the handler's locals are dead
HmReturn(h) ==
    /\ pc[h] = "hm_return"
    /\ pc' = [pc EXCEPT ![h] = "idle"]
    /\ user' = [user EXCEPT ![h] = 0]
    /\ new_count' = [new_count EXCEPT ![h] = 0]
    /\ action' = [action EXCEPT ![h] = "none"]
    /\ msg' = [msg EXCEPT ![h] = NoMsg]
    /\ UNCHANGED <<now, violations, spam_logs, violation, iv_now, cleanupNow,
                   prior, expiredAtIssue, afterReset, removed, nOther, stored, lastOp,
                   spamCount, limiterVars, configVars, chat, loud, reached, msgCount>>

\* reset_violations(user_id), as reset_user_command calls it for an admin
ResetViolations(u) ==
    /\ violations' = DeleteUser(violations, u)
    /\ removed' = [g \in Handlers |-> removed[g] \/ (InIncrement(g) /\ user[g] = u)]
    /\ lastOp' = [lastOp EXCEPT ![u] = ResetOf(lastOp[u], StoredCount(violations, u))]
    /\ UNCHANGED <<now, pc, spam_logs, user, violation, iv_now, new_count, action,
                   cleanupNow, prior, expiredAtIssue, afterReset, nOther,
                   stored, spamCount, limiterVars, pipeVars>>

\* time passes
Tick ==
    /\ now' = now + TickDays
    /\ UNCHANGED <<pc, ledgerVars, limiterVars, pipeVars>>

\* ----------------------------------------------------------- the limiter

\* get_api_usage(date): the day's count, 0 when the day has no row
GetApiUsage(tbl, d) == IF tbl[d] = -1 THEN 0 ELSE tbl[d]

\* update_api_usage(date, count): INSERT ... ON CONFLICT(date) DO UPDATE
UpdateApiUsage(tbl, d, c) == [tbl EXCEPT ![d] = c]

\* can_call = self._count < self.daily_limit
CanCallApiInclusive(count) == count <= daily_limit
CanCallApi(count) == count < daily_limit

\* max(0, self.daily_limit - self._count)
GetRemainingRaw(count) == daily_limit - count
GetRemaining(count) == IF daily_limit - count > 0 THEN daily_limit - count ELSE 0

Bit(b) == IF b THEN 1 ELSE 0

\* how a statement sent to the database ends: it is executed, or aiosqlite
\* raises sqlite3.Error and nothing is written
DbOutcomes == {"ok", "sqlite3.Error"}

\* increment and _refresh_if_new_day have no except clause: an error of
\* their database call leaves them and reaches their caller
LimiterSwallows(w) == FALSE
LimiterRaises(w) == w # "ok"

\* ------------------------------------------- the gates and the classifier

\* what reaches the handlers: a text message, a command (text starting with
\* '/'), a message without text (handle_message drops both), a photo
Kinds == {"text", "command", "sticker", "photo"}

\* is_whitelisted: user_id in self.whitelist or user_id in self.admin_ids
IsWhitelistedOnly(u) == u \in whitelist
IsWhitelisted(u) == u \in whitelist \/ u \in admin_ids

\* the scores the remote classifier may put in its response: below the
\* range, in it (below and at the threshold) and above it
Scores == {-3, 0, 7, 8, 12}

\* how a call of the classifier ends: the client raises before the request
\* has left the process, the request fails on the way or at the service, the
\* response is not JSON, the response has no score, or it has one
Responses ==
    {[kind |-> k, score |-> 0] :
        k \in {"local_error", "remote_error", "unparsable", "no_score"}}
    \cup {[kind |-> "score", score |-> s] : s \in Scores}

\* score = max(0.0, min(10.0, score))
ClampNothing(s) == s
Clamp(s) == IF s < 0 THEN 0 ELSE IF s > 10 THEN 10 ELSE s

\* _parse_response: the clamped score; 0 when the response is not JSON
\* (the except branch) or has no score (data.get("score", 0))
ParseResponse(r) == IF r.kind = "score" THEN Clamp(r.score) ELSE 0

\* check_message / check_image: (is_spam, score) with is_spam = score >=
\* threshold, and (False, 0.0) when anything raised
CheckMessageClosed(r) == [is_spam |-> TRUE, score |-> 10]
CheckMessage(r) ==
    IF r.kind \in {"local_error", "remote_error"}
    THEN [is_spam |-> FALSE, score |-> 0]
    ELSE [is_spam |-> ParseResponse(r) >= spam_threshold, score |-> ParseResponse(r)]

\* the ways a classifier call fails, and those in which the request has
\* left the process
Failures == {"local_error", "remote_error", "unparsable", "no_score"}
Sent(k) == k \in {"remote_error", "unparsable", "no_score", "score"}

\* handle_message hands a message to handle_spam: `if is_spam:` and not
\* `if self.dry_run:`
PunishesAlways(spam, dry) == spam
Punishes(spam, dry) == spam /\ ~dry

\* the calls of increment handle_message makes once check_message has
\* returned: one, whatever was returned
CommitsTwice(r) == 2
Commits(r) == 1

\* the loud log of handle_message: logger.error when remaining == 0
Loud(rem, n) == IF rem = 0 /\ n < MaxLoud THEN n + 1 ELSE n

\* the message as its handler takes it up
NewMsg(u, k) ==
    [NoMsg EXCEPT !.kind = k,
                  !.norecord = ~HasRow(Unexpired(violations, now), u),
                  !.late = reached]


\* the handler leaves the limiter: its limiter locals are dead
LeaveLimiter(h, where) ==
    /\ pc' = [pc EXCEPT ![h] = where]
    /\ fn' = [fn EXCEPT ![h] = "none"]
    /\ today' = [today EXCEPT ![h] = 0]
    /\ loaded' = [loaded EXCEPT ![h] = 0]

\* _refresh_if_new_day on a new day: self._today = today, then the await of
\* get_api_usage(str(today)), whose SELECT is issued here
EnterRefresh(h, f) ==
    /\ rl_today' = now
    /\ today' = [today EXCEPT ![h] = now]
    /\ loaded' = [loaded EXCEPT ![h] = GetApiUsage(api_usage, now)]
    /\ fn' = [fn EXCEPT ![h] = f]
    /\ pc' = [pc EXCEPT ![h] = "rl_refresh"]

\* get_remaining, called by handle_message when can_call is false, with cnt
\* in self._count (a count of day cd), for message m of user u; the handler
\* logs the skip, loudly when remaining == 0, and returns
GetRemainingFrom(h, cnt, cd, u, m) ==
    IF now # rl_today
    THEN /\ EnterRefresh(h, "get_remaining")
         /\ user' = [user EXCEPT ![h] = u]
         /\ msg' = [msg EXCEPT ![h] = m]
         /\ UNCHANGED <<remaining, loud>>
    ELSE /\ remaining' = [fn |-> "get_remaining", value |-> GetRemaining(cnt),
                          day |-> now, basis |-> cd, count |-> cnt]
         /\ loud' = Loud(GetRemaining(cnt), loud)
         /\ LeaveLimiter(h, "hm_return")
         /\ user' = [user EXCEPT ![h] = u]
         /\ msg' = [msg EXCEPT ![h] = [m EXCEPT !.gate = "quota"]]
         /\ UNCHANGED rl_today

\* can_call_api from `can_call = ...` on, for an access of day td, and the
\* branch the handler takes on it: check_message issues the classifier
\* request (handle_photo first downloads the photo), or get_remaining is
\* called and the message is skipped
CanCallFrom(h, cnt, cd, td, u, m) ==
    /\ answer' = [fn |-> "can_call_api", value |-> Bit(CanCallApi(cnt)),
                  day |-> td, basis |-> cd, commits |-> commits]
    /\ IF CanCallApi(cnt)
       THEN /\ IF m.kind = "photo"
               THEN /\ LeaveLimiter(h, "download")
                    /\ UNCHANGED calls
                    /\ msg' = [msg EXCEPT ![h] = m]
               ELSE /\ LeaveLimiter(h, "classify")
                    /\ calls' = calls + 1
                    /\ msg' = [msg EXCEPT ![h] = [m EXCEPT !.called = 1]]
            /\ user' = [user EXCEPT ![h] = u]
            /\ UNCHANGED <<rl_today, remaining, loud>>
       ELSE /\ GetRemainingFrom(h, cnt, cd, u, m)
            /\ UNCHANGED calls

\* handle_message (handle_photo for a photo) for a message of kind k sent by
\* u, up to its first suspension: the filter, the whitelist gate, then
\* can_call_api, which answers at once or awaits the reload of a new day
HandleMessage(h, u, k) ==
    /\ proc = "running"
    /\ pc[h] = "idle"
    /\ \A g \in Handlers : pc[g] = "idle" => h <= g
    /\ IF k \in {"command", "sticker"}
       THEN /\ pc' = [pc EXCEPT ![h] = "hm_return"]
            /\ user' = [user EXCEPT ![h] = u]
            /\ msg' = [msg EXCEPT ![h] = [NoMsg EXCEPT !.kind = k, !.gate = "filtered"]]
            /\ UNCHANGED <<fn, today, loaded, rl_today, answer, remaining, calls,
                           fresh, dayClean, loud>>
       ELSE IF enable_whitelist /\ IsWhitelisted(u)
       THEN /\ pc' = [pc EXCEPT ![h] = "hm_return"]
            /\ user' = [user EXCEPT ![h] = u]
            /\ msg' = [msg EXCEPT ![h] = [NoMsg EXCEPT !.kind = k, !.gate = "whitelisted"]]
            /\ UNCHANGED <<fn, today, loaded, rl_today, answer, remaining, calls,
                           fresh, dayClean, loud>>
       ELSE /\ fresh' = FALSE
            /\ dayClean' = (dayClean /\ \A g \in Handlers : pc[g] = "idle")
            /\ IF now # rl_today
               THEN /\ EnterRefresh(h, "can_call_api")
                    /\ user' = [user EXCEPT ![h] = u]
                    /\ msg' = [msg EXCEPT ![h] = NewMsg(u, k)]
                    /\ UNCHANGED <<answer, remaining, calls, loud>>
               ELSE CanCallFrom(h, rl_count, countDay, now, u, NewMsg(u, k))
    /\ UNCHANGED <<now, api_usage, rl_count, rl_initialized, proc, countDay, commits,
                   restarts, restartedToday, ledgerRest, configVars, chat, reached>>

\* get_usage, called by a reader of the limiter
GetUsage(h) ==
    /\ proc = "running"
    /\ pc[h] = "idle"
    /\ \A g \in Handlers : pc[g] = "idle" => h <= g
    /\ fresh' = FALSE
    /\ IF now # rl_today
       THEN /\ EnterRefresh(h, "get_usage")
            /\ UNCHANGED answer
       ELSE /\ answer' = [fn |-> "get_usage", value |-> rl_count, day |-> now,
                          basis |-> countDay, commits |-> commits]
            /\ UNCHANGED <<pc, fn, today, loaded, rl_today>>
    /\ UNCHANGED <<now, api_usage, rl_count, rl_initialized, proc, remaining, countDay,
                   commits, calls, dayClean, restarts, restartedToday, ledgerVars,
                   pipeVars>>

\* _refresh_if_new_day resumes with an error of get_api_usage: self._count
\* keeps its value, and the error leaves can_call_api / get_remaining and
\* handle_message, which calls them outside its try block
RefreshFails(h) ==
    /\ pc[h] = "rl_refresh"
    /\ LeaveLimiter(h, IF fn[h] = "get_usage" THEN "idle" ELSE "hm_return")
    /\ msg' = IF fn[h] = "get_usage" THEN msg ELSE [msg EXCEPT ![h].gate = "error"]
    /\ UNCHANGED <<rl_count, countDay, rl_today, answer, remaining, calls, user, loud>>

\* _refresh_if_new_day resumes: self._count = <the count read>, and the
\* function that called it answers
RefreshLoads(h) ==
    /\ pc[h] = "rl_refresh"
    /\ rl_count' = loaded[h]
    /\ countDay' = today[h]
    /\ CASE fn[h] = "can_call_api" ->
                CanCallFrom(h, loaded[h], today[h], today[h], user[h], msg[h])
         [] fn[h] = "get_remaining" ->
                /\ remaining' = [fn |-> "get_remaining", value |-> GetRemaining(loaded[h]),
                                 day |-> today[h], basis |-> today[h], count |-> loaded[h]]
                /\ loud' = Loud(GetRemaining(loaded[h]), loud)
                /\ LeaveLimiter(h, "hm_return")
                /\ msg' = [msg EXCEPT ![h].gate = "quota"]
                /\ UNCHANGED <<rl_today, answer, calls, user>>
         [] fn[h] = "get_usage" ->
                /\ answer' = [fn |-> "get_usage", value |-> loaded[h], day |-> today[h],
                              basis |-> today[h], commits |-> commits]
                /\ LeaveLimiter(h, "idle")
                /\ UNCHANGED <<rl_today, remaining, calls, user, msg, loud>>

\* the SELECT of _refresh_if_new_day ends as o
RefreshResume(h, o) ==
    /\ IF LimiterRaises(o) THEN RefreshFails(h) ELSE RefreshLoads(h)
    /\ UNCHANGED <<now, api_usage, rl_initialized, proc, commits, dayClean, restarts,
                   restartedToday, fresh, ledgerRest, configVars, chat, reached,
                   msgCount>>

\* handle_photo: get_file and download_to_memory return, or raise into the
\* handler's `except Exception`; after them check_image issues the request
DownloadReturn(h, o) ==
    /\ pc[h] = "download"
    /\ IF o = "ok"
       THEN /\ pc' = [pc EXCEPT ![h] = "classify"]
            /\ calls' = calls + 1
            /\ msg' = [msg EXCEPT ![h].called = 1]
       ELSE /\ pc' = [pc EXCEPT ![h] = "hm_return"]
            /\ msg' = [msg EXCEPT ![h].gate = "error"]
            /\ UNCHANGED calls
    /\ UNCHANGED <<now, ledgerVars, api_usage, rl_today, rl_count, rl_initialized, proc,
                   fn, today, loaded, answer, remaining, countDay, commits, dayClean,
                   restarts, restartedToday, fresh, configVars, chat, loud,
                   reached, msgCount>>

\* check_message returns (with a verdict or with its error default) and
\* handle_message calls increment: self._count += 1, then the await of
\* update_api_usage(str(self._today), self._count), whose INSERT is issued
\* here and ends as w
ClassifyReturn(h, r, w) ==
    /\ pc[h] = "classify"
    /\ LET n == Commits(r)
       IN  /\ rl_count' = rl_count + n
           /\ api_usage' = IF n > 0 /\ w = "ok"
                           THEN UpdateApiUsage(api_usage, rl_today, rl_count + n)
                           ELSE api_usage
           /\ commits' = commits + n
           /\ reached' = (reached \/ (rl_today = now /\ rl_count + n >= daily_limit))
           /\ msg' = [msg EXCEPT ![h].is_spam = CheckMessage(r).is_spam,
                                 ![h].score = CheckMessage(r).score,
                                 ![h].resp = r.kind,
                                 ![h].raw = r.score,
                                 ![h].write = w,
                                 ![h].committed = @ + n]
    /\ pc' = [pc EXCEPT ![h] = "rl_commit"]
    /\ UNCHANGED <<now, rl_today, rl_initialized, proc, fn, today, loaded, answer,
                   remaining, countDay, calls, dayClean, restarts, restartedToday,
                   fresh, ledgerVars, configVars, chat, loud, msgCount>>

\* increment resumes; an error of its write goes to the `except Exception`
\* of handle_message, which logs it and returns.  Otherwise a message found
\* to be spam is logged only in dry-run mode and is handed to handle_spam
\* when dry-run is off, which runs into increment_violation; any other
\* message ends here
IncrementResume(h) ==
    /\ pc[h] = "rl_commit"
    /\ IF LimiterRaises(msg[h].write)
       THEN /\ pc' = [pc EXCEPT ![h] = "hm_return"]
            /\ msg' = [msg EXCEPT ![h].gate = "error"]
            /\ UNCHANGED spamCount
       ELSE IF Punishes(msg[h].is_spam, dry_run)
       THEN /\ pc' = [pc EXCEPT ![h] = "iv_cleanup"]
            /\ spamCount' = spamCount + 1
            /\ UNCHANGED msg
       ELSE /\ pc' = [pc EXCEPT ![h] = "hm_return"]
            /\ msg' = [msg EXCEPT ![h].gate = IF msg[h].is_spam THEN "dry_run" ELSE "ham"]
            /\ UNCHANGED spamCount
    /\ UNCHANGED <<now, violations, spam_logs, user, violation, iv_now, new_count, action,
                   cleanupNow, prior, expiredAtIssue, afterReset, removed, nOther,
                   stored, lastOp, limiterVars, configVars, chat, loud, reached,
                   msgCount>>

\* midnight: date.today() changes
Midnight ==
    /\ now < MaxDay
    /\ now' = now + 1
    /\ commits' = 0
    /\ calls' = 0
    /\ restartedToday' = FALSE
    /\ fresh' = FALSE
    /\ dayClean' = /\ \A g \in Handlers : pc[g] = "idle"
                   /\ proc = "running"
                   /\ GetApiUsage(api_usage, now + 1) = 0
    /\ loud' = 0
    /\ reached' = FALSE
    /\ UNCHANGED <<pc, ledgerVars, api_usage, rl_today, rl_count, rl_initialized, proc,
                   fn, today, loaded, answer, remaining, countDay, restarts,
                   configVars, chat, msg, msgCount>>

\* the process stops and starts again: every handler in flight is gone, and
\* RateLimiter.__init__ runs: self._today = date.today(), self._count = 0
Construct ==
    /\ restarts < MaxRestarts
    /\ restarts' = restarts + 1
    /\ proc' = "constructed"
    /\ rl_today' = now
    /\ rl_count' = 0
    /\ rl_initialized' = FALSE
    /\ countDay' = now
    /\ pc' = [h \in Handlers |-> "idle"]
    /\ fn' = [h \in Handlers |-> "none"]
    /\ today' = [h \in Handlers |-> 0]
    /\ loaded' = [h \in Handlers |-> 0]
    /\ user' = [h \in Handlers |-> 0]
    /\ msg' = [h \in Handlers |-> NoMsg]
    /\ restartedToday' = TRUE
    /\ dayClean' = FALSE
    /\ fresh' = FALSE
    /\ UNCHANGED <<now, ledgerRest, api_usage, answer, remaining, commits, calls,
                   configVars, chat, loud, reached, msgCount>>

\* RateLimiter.initialize, awaited by the start-up code before any handler
\* runs: _refresh_if_new_day, then self._initialized = True
Initialize ==
    /\ proc = "constructed"
    /\ IF now # rl_today
       THEN /\ rl_today' = now
            /\ rl_count' = GetApiUsage(api_usage, now)
            /\ countDay' = now
       ELSE UNCHANGED <<rl_today, rl_count, countDay>>
    /\ rl_initialized' = TRUE
    /\ proc' = "running"
    /\ fresh' = TRUE
    /\ UNCHANGED <<now, pc, ledgerVars, api_usage, fn, today, loaded, answer, remaining,
                   commits, calls, dayClean, restarts, restartedToday, pipeVars>>

\* ------------------------------------------------------ the admin commands

\* is_admin: user_id in self.whitelist.admin_ids
IsAdminAnyone(u) == TRUE
IsAdmin(u) == u \in admin_ids

\* the sub-commands of /whitelist
WhitelistArgs == {"list", "add", "remove"}

\* add_to_whitelist / remove_from_whitelist on self.whitelist
WhitelistAfter(wl, sub, t) ==
    IF sub = "add" THEN wl \cup {t}
    ELSE IF sub = "remove" THEN wl \ {t}
    ELSE wl

\* how the write of config.yaml in _save_whitelist ends; its error is logged
\* and swallowed there
SaveOutcomes == {"ok", "OSError"}

\* a command handler is entered by user c: the history notes it, and
\* whether the user the command is about held a violation record
Received(c, name, t) ==
    /\ cmdCount < MaxCommands
    /\ cmdCount' = cmdCount + 1
    /\ cmd' = [name |-> name, by |-> c, target |-> t,
                had |-> (t \in Users /\ HasRow(violations, t))]

\* /stats: a user who is not an admin gets no answer; for an admin
\* get_statistics reads the tables and the text is sent as a reply
StatsCommand(c) ==
    /\ Received(c, "stats", 0)
    /\ replies' = IF IsAdmin(c) THEN replies + 1 ELSE replies
    /\ UNCHANGED <<now, pc, ledgerVars, limiterVars, dry_run, enable_whitelist,
                   whitelist, admin_ids, saved, chat, msg, loud, reached, msgCount>>

\* /whitelist list | add <user_id> | remove <user_id>: past the admin gate
\* the set is changed and, when it changed, written to config.yaml (the
\* write ending as s); a reply is sent in every case
WhitelistCommand(c, sub, t, s) ==
    /\ Received(c, "whitelist_" \o sub, t)
    /\ IF IsAdmin(c)
       THEN /\ whitelist' = WhitelistAfter(whitelist, sub, t)
            /\ saved' = IF whitelist' # whitelist /\ s = "ok" THEN whitelist' ELSE saved
            /\ replies' = replies + 1
       ELSE UNCHANGED <<whitelist, saved, replies>>
    /\ UNCHANGED <<now, pc, ledgerVars, limiterVars, dry_run, enable_whitelist,
                   admin_ids, chat, msg, loud, reached, msgCount>>

\* /reset_user <user_id>: past the admin gate reset_violations(target) and
\* a reply
ResetUserCommand(c, t) ==
    /\ Received(c, "reset_user", t)
    /\ IF IsAdmin(c)
       THEN /\ violations' = DeleteUser(violations, t)
            /\ removed' = [g \in Handlers |->
                              removed[g] \/ (InIncrement(g) /\ user[g] = t)]
            /\ lastOp' = [lastOp EXCEPT ![t] = ResetOf(lastOp[t], StoredCount(violations, t))]
            /\ replies' = replies + 1
       ELSE UNCHANGED <<violations, removed, lastOp, replies>>
    /\ UNCHANGED <<now, pc, spam_logs, user, violation, iv_now, new_count, action,
                   cleanupNow, prior, expiredAtIssue, afterReset, nOther,
                   stored, spamCount, limiterVars, dry_run, enable_whitelist,
                   whitelist, admin_ids, saved, chat, msg, loud, reached, msgCount>>

\* ---------------------------------------------------------- specifications

InitState ==
    /\ now = 0
    /\ violations = <<>>
    /\ spam_logs = <<>>
    /\ api_usage = [d \in 0..MaxDay |-> -1]
    /\ rl_today = 0
    /\ rl_count = 0
    /\ rl_initialized = TRUE
    /\ proc = "running"
    /\ pc = [h \in Handlers |-> "idle"]
    /\ user = [h \in Handlers |-> 0]
    /\ violation = [h \in Handlers |-> NoViolation]
    /\ iv_now = [h \in Handlers |-> 0]
    /\ new_count = [h \in Handlers |-> 0]
    /\ action = [h \in Handlers |-> "none"]
    /\ fn = [h \in Handlers |-> "none"]
    /\ today = [h \in Handlers |-> 0]
    /\ loaded = [h \in Handlers |-> 0]
    /\ cleanupNow = [h \in Handlers |-> 0]
    /\ prior = [h \in Handlers |-> 0]
    /\ expiredAtIssue = [h \in Handlers |-> 0]
    /\ afterReset = [h \in Handlers |-> "other"]
    /\ removed = [h \in Handlers |-> FALSE]
    /\ nOther = [h \in Handlers |-> 0]
    /\ stored = [h \in Handlers |-> 0]
    /\ lastOp = [u \in Users |-> "other"]
    /\ spamCount = 0
    /\ answer = NoAnswer
    /\ remaining = NoRemaining
    /\ countDay = 0
    /\ commits = 0
    /\ calls = 0
    /\ dayClean = TRUE
    /\ restarts = 0
    /\ restartedToday = FALSE
    /\ fresh = TRUE
    /\ chat = [u \in Users |-> "member"]
    /\ msg = [h \in Handlers |-> NoMsg]
    /\ loud = 0
    /\ reached = FALSE
    /\ msgCount = 0
    /\ replies = 0
    /\ cmd = NoCmd
    /\ cmdCount = 0

\* a first start on day 0 with an empty database and the default
\* configuration: dry-run off, whitelist enforced, nobody exempt
Init ==
    /\ InitState
    /\ dry_run = FALSE
    /\ enable_whitelist = TRUE
    /\ whitelist = {}
    /\ saved = {}
    /\ admin_ids = {}

AllIdle == \A h \in Handlers : pc[h] = "idle"

\* The updates are processed one at a time, as the Application built in
\* main() does: a spam event or an admin command starts when no handler is
\* in flight.
SeqHandleSpam(h, u) == AllIdle /\ spamCount < MaxSpam /\ HandleSpam(h, u)
SeqResetViolations(u) == AllIdle /\ ResetViolations(u)
SeqTick == now + TickDays <= MaxNow /\ Tick

NextLedgerSeq ==
    \/ \E h \in Handlers, u \in Users : SeqHandleSpam(h, u)
    \/ \E h \in Handlers : IvCleanup(h)
    \/ \E h \in Handlers : IvSelect(h)
    \/ \E h \in Handlers : IvStamp(h)
    \/ \E h \in Handlers : IvWrite(h)
    \/ \E h \in Handlers : HsPunish(h)
    \/ \E h \in Handlers : HsLog(h)
    \/ \E u \in Users : SeqResetViolations(u)
    \/ SeqTick

\* the violation ledger with one update in flight at a time
SpecLedgerSeq == Init /\ [][NextLedgerSeq]_vars

\* The updates are processed concurrently: handlers interleave at every
\* suspension point, and an admin reset can fall between any two steps.
RaceHandleSpam(h, u) == spamCount < MaxRaceSpam /\ HandleSpam(h, u)
RaceTick == now + TickDays <= MaxRaceNow /\ Tick
\* the ChatAdapter calls, which never touch the ledger, all succeed
RaceHsPunish(h) == Punish(h, "ok", "ok", "ok")

NextLedger ==
    \/ \E h \in Handlers, u \in Users : RaceHandleSpam(h, u)
    \/ \E h \in Handlers : IvCleanup(h)
    \/ \E h \in Handlers : IvSelect(h)
    \/ \E h \in Handlers : IvStamp(h)
    \/ \E h \in Handlers : IvWrite(h)
    \/ \E h \in Handlers : RaceHsPunish(h)
    \/ \E h \in Handlers : HsLog(h)
    \/ \E u \in Users : ResetViolations(u)
    \/ RaceTick

\* the violation ledger under concurrent spam events, admin resets and time
SpecLedger == Init /\ [][NextLedger]_vars

\* The escalation of one user under concurrent spam events and admin
\* resets, long enough for one call to overlap two others.
EscHandleSpam(h) == spamCount < MaxEscSpam /\ HandleSpam(h, 1)
EscResetViolations == ResetViolations(1)

NextEscalation ==
    \/ \E h \in Handlers : EscHandleSpam(h)
    \/ \E h \in Handlers : IvCleanup(h)
    \/ \E h \in Handlers : IvSelect(h)
    \/ \E h \in Handlers : IvStamp(h)
    \/ \E h \in Handlers : IvWrite(h)
    \/ \E h \in Handlers : RaceHsPunish(h)
    \/ \E h \in Handlers : HsLog(h)
    \/ EscResetViolations

\* one user's violation count under concurrent spam events and resets
SpecEscalation == Init /\ [][NextEscalation]_vars

\* the limiter's traffic: text messages of a sender that is not exempt, which
\* the classifier scores 0; the database executes every statement
HamResponses == {[kind |-> "score", score |-> 0]}
LimiterHandleMessage(h) == HandleMessage(h, 1, "text") /\ UNCHANGED msgCount

NextLimiter ==
    \/ \E h \in Handlers : LimiterHandleMessage(h)
    \/ \E h \in Handlers : GetUsage(h)
    \/ \E h \in Handlers : RefreshResume(h, "ok")
    \/ \E h \in Handlers, r \in HamResponses : ClassifyReturn(h, r, "ok")
    \/ \E h \in Handlers : IncrementResume(h)
    \/ \E h \in Handlers : HmReturn(h)
    \/ Midnight
    \/ Construct
    \/ Initialize

\* the rate limiter under concurrent messages, midnights and restarts
SpecLimiter == Init /\ [][NextLimiter]_vars

\* The pipeline as main() runs it: one update at a time, through every gate
\* of the handler, under any configuration; user 1 is exempt, by the
\* whitelist or as an administrator of the group.
InitPipeline ==
    /\ InitState
    /\ dry_run \in BOOLEAN
    /\ enable_whitelist \in BOOLEAN
    /\ \/ whitelist = {1} /\ admin_ids = {}
       \/ whitelist = {} /\ admin_ids = {1}
    /\ saved = whitelist

PipeHandleMessage(h, u, k) ==
    /\ AllIdle
    /\ msgCount < MaxMessages
    /\ msgCount' = msgCount + 1
    /\ HandleMessage(h, u, k)
PipeMidnight == now < MaxPipeDay /\ Midnight

NextPipeline ==
    \/ \E h \in Handlers, u \in Users, k \in Kinds : PipeHandleMessage(h, u, k)
    \/ \E h \in Handlers, o \in DbOutcomes : RefreshResume(h, o)
    \/ \E h \in Handlers, o \in Outcomes : DownloadReturn(h, o)
    \/ \E h \in Handlers, r \in Responses, w \in DbOutcomes : ClassifyReturn(h, r, w)
    \/ \E h \in Handlers : IncrementResume(h)
    \/ \E h \in Handlers : IvCleanup(h)
    \/ \E h \in Handlers : IvSelect(h)
    \/ \E h \in Handlers : IvStamp(h)
    \/ \E h \in Handlers : IvWrite(h)
    \/ \E h \in Handlers : HsPunish(h)
    \/ \E h \in Handlers : HsLog(h)
    \/ \E h \in Handlers : HmReturn(h)
    \/ PipeMidnight

\* the message pipeline, end to end
SpecPipeline == InitPipeline /\ [][NextPipeline]_vars

\* The pipeline with the scheduling the event loop guarantees: a coroutine
\* whose awaited call on the local database or on the platform has ended is
\* resumed, and runs to its next await.  Nothing makes the remote classifier
\* answer: the await of chat.completions.create ends when the client returns
\* or raises, and no statement of the program bounds it.
FairPipeline ==
    /\ WF_vars(\E h \in Handlers, o \in DbOutcomes : RefreshResume(h, o))
    /\ WF_vars(\E h \in Handlers, o \in Outcomes : DownloadReturn(h, o))
    /\ WF_vars(\E h \in Handlers : IncrementResume(h))
    /\ WF_vars(\E h \in Handlers : IvCleanup(h))
    /\ WF_vars(\E h \in Handlers : IvSelect(h))
    /\ WF_vars(\E h \in Handlers : IvStamp(h))
    /\ WF_vars(\E h \in Handlers : IvWrite(h))
    /\ WF_vars(\E h \in Handlers : HsPunish(h))
    /\ WF_vars(\E h \in Handlers : HsLog(h))
    /\ WF_vars(\E h \in Handlers : HmReturn(h))

\* the message pipeline under that scheduling
SpecPipelineLive == InitPipeline /\ [][NextPipeline]_vars /\ FairPipeline

\* The admin commands among spam events: one update at a time, user 1 the
\* only administrator, commands sent by anyone about anyone.
InitAdmin ==
    /\ InitState
    /\ dry_run = FALSE
    /\ enable_whitelist = TRUE
    /\ whitelist = {}
    /\ saved = {}
    /\ admin_ids = {1}

AdminHandleSpam(h, u) == AllIdle /\ spamCount < MaxAdminSpam /\ HandleSpam(h, u)
AdminTick == now + TickDays <= MaxAdminNow /\ Tick
AdminStats(c) == AllIdle /\ StatsCommand(c)
AdminWhitelist(c, sub, t, s) == AllIdle /\ WhitelistCommand(c, sub, t, s)
AdminResetUser(c, t) == AllIdle /\ ResetUserCommand(c, t)

NextAdmin ==
    \/ \E h \in Handlers, u \in Users : AdminHandleSpam(h, u)
    \/ \E h \in Handlers : IvCleanup(h)
    \/ \E h \in Handlers : IvSelect(h)
    \/ \E h \in Handlers : IvStamp(h)
    \/ \E h \in Handlers : IvWrite(h)
    \/ \E h \in Handlers : HsPunish(h)
    \/ \E h \in Handlers : HsLog(h)
    \/ \E c \in Users : AdminStats(c)
    \/ \E c \in Users, sub \in WhitelistArgs, t \in Users, s \in SaveOutcomes :
            AdminWhitelist(c, sub, t, s)
    \/ \E c \in Users, t \in Users : AdminResetUser(c, t)
    \/ AdminTick

\* the admin commands and the ledger, one update at a time
SpecAdmin == InitAdmin /\ [][NextAdmin]_vars

\* ------------------------------------------------------ the ledger's claims

\* no other operation touched the user's rows while h was between its
\* cleanup and its write
Alone(h) == ~removed[h] /\ nOther[h] = 0

\* C1: recordViolation calls of a user made one after another, with no reset
\* and no expiry in between, return the count before plus one (1, 2, 3, 4, ...)
\* and store it, and the tier dispatched is warn for 1, kick for 2, ban from 3 on.
C1_SequentialEscalation ==
    \A h \in Handlers :
        /\ (pc[h] = "hs_punish" /\ Alone(h)) =>
                (new_count[h] = prior[h] + 1 /\ stored[h] = new_count[h])
        /\ pc[h] = "hs_log" =>
                /\ new_count[h] = 1 => action[h] = "warning"
                /\ new_count[h] = 2 => action[h] = "kick"
                /\ new_count[h] >= 3 => action[h] = "ban"

\* a fourth consecutive violation was returned as 4 and punished with ban
C1_Witness == \E h \in Handlers : pc[h] = "hs_log" /\ new_count[h] = 4 /\ action[h] = "ban"

\* C2: concurrent recordViolation calls of one user are atomic: a call returns
\* the count at its issue, plus one, plus the number of calls of the same user
\* that committed while it was in flight, so k concurrent calls return c+1 .. c+k.
C2_AtomicIncrement ==
    \A h \in Handlers :
        (pc[h] = "hs_punish" /\ ~removed[h]) => new_count[h] = prior[h] + 1 + nOther[h]

\* C3: a record that has expired when a call is issued is not returned by
\* get_violation and does not count: the call returns 1, whatever the old
\* count and however the clock advances after the cleanup.
C3_ExpiredIsAbsent ==
    \A h \in Handlers :
        /\ (pc[h] \in {"iv_stamp", "iv_write"} /\ Alone(h) /\ violation[h] # NoViolation) =>
                violation[h].reset_at >= cleanupNow[h]
        /\ (pc[h] = "hs_punish" /\ Alone(h) /\ expiredAtIssue[h] > 0) =>
                (new_count[h] = 1 /\ stored[h] = 1)

\* a call issued on an expired record of count 2 or more returned 1, and the
\* clock advanced between its cleanup and its write
C3_Witness ==
    \E h \in Handlers :
        /\ pc[h] = "hs_punish"
        /\ expiredAtIssue[h] >= 2
        /\ new_count[h] = 1
        /\ iv_now[h] > cleanupNow[h]

\* C4: reset(u) followed, with no other operation on u in between, by
\* recordViolation(u) returns 1, whatever the count before the reset.
C4_ResetThenOne ==
    \A h \in Handlers :
        (pc[h] = "hs_punish" /\ Alone(h) /\ afterReset[h] # "other") =>
            (new_count[h] = 1 /\ stored[h] = 1)

\* a user whose count was 2 or more was reset and the next violation returned 1
C4_Witness ==
    \E h \in Handlers :
        pc[h] = "hs_punish" /\ afterReset[h] = "reset_many" /\ new_count[h] = 1

\* C5: reset(u) leaves no record of u, leaves every other user's records as
\* they were, and changes nothing when u has no record (a second reset in a row).
C5_ResetIdempotent ==
    [][\A u \in Users :
          ResetViolations(u) =>
              /\ ~HasRow(violations', u)
              /\ \A w \in Users \ {u} : RowsOf(violations', w) = RowsOf(violations, w)
              /\ (~HasRow(violations, u) => violations' = violations)]_vars

\* a user was reset twice in a row while another user holds a record
C5_Witness ==
    \E u \in Users, w \in Users :
        /\ u # w
        /\ lastOp[u] = "reset_again"
        /\ ~HasRow(violations, u)
        /\ HasRow(violations, w)

\* ----------------------------------------------------- the limiter's claims

\* C6: on a day that starts with count 0 and is run sequentially (one handler
\* in flight at a time, no restart), can_call_api answers true exactly while
\* fewer than daily_limit increments were made that day: the first N checks
\* pass and every check after the N-th increment fails.
C6_ExactlyNGranted ==
    (dayClean /\ answer.fn = "can_call_api" /\ answer.day = now) =>
        (answer.value = 1 <=> answer.commits < daily_limit)

\* after a rollover, on a sequential day, the check after the N-th increment
\* was refused
C6_Witness ==
    /\ dayClean
    /\ now >= 1
    /\ answer.fn = "can_call_api"
    /\ answer.day = now
    /\ answer.value = 0
    /\ answer.commits = daily_limit

\* C7: an answer of can_call_api, get_remaining or get_usage is computed from
\* a count of the day of the access (the count persisted for the new day after
\* a midnight), never from the in-memory count of an earlier day, for every
\* interleaving of the handlers.
C7_RolloverReload ==
    /\ answer.fn # "none" => answer.basis = answer.day
    /\ remaining.fn # "none" => remaining.basis = remaining.day

\* C8: after a restart and initialize(), and before the first access, the
\* in-memory count is the count the store holds for today.
C8_RestartLoadsToday == fresh => rl_count = GetApiUsage(api_usage, now)

\* C9: on a day without a restart, with at most NumHandlers handlers in
\* flight, at most daily_limit + NumHandlers - 1 classifier calls are made.
C9_BoundedOvershoot == ~restartedToday => calls <= daily_limit + NumHandlers - 1

\* C10: get_remaining never returns a negative number.
C10_RemainingNonNegative == remaining.fn # "none" => remaining.value >= 0

\* get_remaining answered 0 while the count was above the limit
C10_Witness ==
    /\ remaining.fn = "get_remaining"
    /\ remaining.count > daily_limit
    /\ remaining.value = 0

\* ---------------------------------------------------- the pipeline's claims

\* C11: increment is called exactly once for each call of the classifier
\* made for a message and never without one: no call of either while the
\* message is at the filter, the whitelist gate, the quota check or the photo
\* download, one classifier call and no increment while the classifier is
\* working, one of each from then on; a message that ends at a gate ends
\* with none, a classified message with exactly one of each.
C11_CommitPerClassifierCall ==
    \A h \in Handlers :
        /\ pc[h] \in {"idle", "rl_refresh", "download"} =>
                (msg[h].called = 0 /\ msg[h].committed = 0)
        /\ pc[h] = "classify" => (msg[h].called = 1 /\ msg[h].committed = 0)
        /\ pc[h] \in {"rl_commit", "iv_cleanup", "iv_select", "iv_stamp", "iv_write",
                      "hs_punish", "hs_log"} =>
                (msg[h].called = 1 /\ msg[h].committed = 1)
        /\ pc[h] = "hm_return" =>
                /\ msg[h].committed = msg[h].called
                /\ msg[h].gate \in {"filtered", "whitelisted", "quota"} => msg[h].called = 0
                /\ msg[h].gate \in {"ham", "dry_run", "punished"} => msg[h].called = 1

\* a message was classified, punished and returns with one increment
C11_Witness ==
    \E h \in Handlers :
        /\ pc[h] = "hm_return"
        /\ msg[h].gate = "punished"
        /\ msg[h].called = 1
        /\ msg[h].committed = 1

\* C12: when the classifier call failed before its request left the process
\* the count is not incremented for the message, and when the request had
\* left (remote error, malformed or field-less response, a score) it is
\* incremented by exactly one.
C12_CommitOnlyIfSent ==
    \A h \in Handlers :
        pc[h] = "rl_commit" => msg[h].committed = Bit(Sent(msg[h].resp))

\* C13: a message whose classification failed (the call raised, locally or
\* remotely, or the response was not JSON or had no score) is not spam: its
\* handler goes from the increment to its return (as a message that is not
\* spam, or with the error of the increment's write), requests no ChatAdapter
\* call, and no step taken while it is in hand changes a violation record,
\* the audit log or a user's standing on the platform.
C13_FailOpen ==
    /\ [](\A h \in Handlers :
            msg[h].resp \in {"local_error", "remote_error", "unparsable", "no_score"} =>
                /\ ~msg[h].is_spam
                /\ pc[h] \in {"rl_commit", "hm_return"}
                /\ msg[h].requested = {}
                /\ msg[h].gate \in {"none", "ham", "error"})
    /\ [][\A h \in Handlers :
            msg[h].resp \in {"local_error", "remote_error", "unparsable", "no_score"} =>
                UNCHANGED <<violations, spam_logs, chat>>]_vars

\* a message whose classifier response could not be parsed returns unpunished
C13_Witness ==
    \E h \in Handlers :
        /\ pc[h] = "hm_return"
        /\ msg[h].resp = "unparsable"
        /\ msg[h].gate = "ham"
        /\ spam_logs = <<>>

\* C14: while the whitelist is enforced, a text or photo message of a user in
\* whitelist or admin_ids stops at the gate: no classifier call, no
\* increment, no ChatAdapter call, and the steps of its handler leave the
\* count, the api_usage table, the ledger, the audit log and the platform
\* unchanged; a message is stopped at that gate only when the whitelist is
\* enforced and the sender is in one of the two sets.
C14_WhitelistGate ==
    /\ [](\A h \in Handlers :
            /\ (/\ enable_whitelist
                /\ user[h] \in whitelist \cup admin_ids
                /\ msg[h].kind \in {"text", "photo"}) =>
                    /\ pc[h] = "hm_return"
                    /\ msg[h].gate = "whitelisted"
                    /\ msg[h].called = 0
                    /\ msg[h].committed = 0
                    /\ msg[h].requested = {}
            /\ msg[h].gate = "whitelisted" =>
                    (enable_whitelist /\ user[h] \in whitelist \cup admin_ids))
    /\ [][\A h \in Handlers :
            (/\ enable_whitelist
             /\ pc'[h] # pc[h]
             /\ \/ user[h] \in whitelist \cup admin_ids
                \/ user'[h] \in whitelist \cup admin_ids) =>
                UNCHANGED <<rl_count, api_usage, calls, commits, violations,
                            spam_logs, chat>>]_vars

\* the message of an administrator who is not on the whitelist was stopped
C14_Witness ==
    \E h \in Handlers :
        /\ pc[h] = "hm_return"
        /\ msg[h].gate = "whitelisted"
        /\ msg[h].kind = "text"
        /\ user[h] \in admin_ids
        /\ user[h] \notin whitelist

\* C15: a message whose handling starts on a day after that day's count has
\* reached the limit is never handed to the classifier.
C15_ExhaustedSkips ==
    \A h \in Handlers : (msg[h].kind # "none" /\ msg[h].late) => msg[h].called = 0

\* C16: the loud "API daily limit reached" event is logged at most once in a
\* calendar day.
C16_LoudOnce == loud <= 1

\* C17: in dry-run mode a message found to be spam goes from the increment to
\* its return: no ChatAdapter call is requested for it, and no step of a
\* dry-run process changes a violation record, the audit log or the platform.
C17_DryRun ==
    /\ [](\A h \in Handlers :
            (dry_run /\ msg[h].is_spam) =>
                /\ pc[h] \in {"rl_commit", "hm_return"}
                /\ msg[h].requested = {}
                /\ msg[h].committed = 1)
    /\ [][dry_run => UNCHANGED <<violations, spam_logs, chat>>]_vars

\* a spam message was handled in dry-run mode and returns, counted once
C17_Witness ==
    \E h \in Handlers :
        /\ dry_run
        /\ pc[h] = "hm_return"
        /\ msg[h].gate = "dry_run"
        /\ msg[h].is_spam
        /\ msg[h].committed = 1

\* C18: once increment_violation has returned, handle_spam goes on to log_spam
\* whatever the ChatAdapter calls did, and leaves log_spam by appending one
\* event with the user and the action of the tier; nothing else appends.
C18_AuditAfterFailures ==
    [][/\ \A h \in Handlers :
            /\ (pc[h] = "hs_punish" /\ pc'[h] # "hs_punish") =>
                    /\ pc'[h] = "hs_log"
                    /\ action'[h] = (IF new_count[h] = 1 THEN "warning"
                                     ELSE IF new_count[h] = 2 THEN "kick" ELSE "ban")
                    /\ spam_logs' = spam_logs
            /\ (pc[h] = "hs_log" /\ pc'[h] # "hs_log") =>
                    spam_logs' = Append(spam_logs,
                                        [user_id |-> user[h], llm_score |-> msg[h].score,
                                         action |-> action[h]])
       /\ (\A h \in Handlers : pc[h] # "hs_log") => spam_logs' = spam_logs]_vars

\* the deletion and the kick or ban both raised, and the event is in the log
C18_Witness ==
    \E h \in Handlers :
        /\ pc[h] = "hm_return"
        /\ msg[h].gate = "punished"
        /\ action[h] \in {"kick", "ban"}
        /\ msg[h].failed = {"delete", action[h]}
        /\ spam_logs # <<>>
        /\ spam_logs[Len(spam_logs)] =
                [user_id |-> user[h], llm_score |-> msg[h].score, action |-> action[h]]

\* C19 (amended): the first offence of a user without a record, with quota
\* left and dry-run off: the deletion and the notice are requested, the
\* count was incremented once for the message, and handle_spam ends with the
\* user's stored count at 1 and one new audit event whose action is "warning".
C19_FirstOffenceWarning ==
    [][\A h \in Handlers :
          (/\ pc[h] = "hs_log"
           /\ pc'[h] # "hs_log"
           /\ msg[h].norecord
           /\ msg[h].score >= spam_threshold) =>
                /\ {"delete", "notice"} \subseteq msg[h].requested
                /\ msg[h].committed = 1
                /\ StoredCount(violations', user[h]) = 1
                /\ spam_logs' = Append(spam_logs,
                                       [user_id |-> user[h], llm_score |-> msg[h].score,
                                        action |-> "warning"])]_vars

\* C19 as stated: the new audit event's action is "warn"
C19_FirstOffenceWarn ==
    [][\A h \in Handlers :
          (/\ pc[h] = "hs_log"
           /\ pc'[h] # "hs_log"
           /\ msg[h].norecord
           /\ msg[h].score >= spam_threshold) =>
                /\ {"delete", "notice"} \subseteq msg[h].requested
                /\ msg[h].committed = 1
                /\ StoredCount(violations', user[h]) = 1
                /\ spam_logs' = Append(spam_logs,
                                       [user_id |-> user[h], llm_score |-> msg[h].score,
                                        action |-> "warn"])]_vars

\* the first message of the run was a first offence and its event is logged
C19_Witness ==
    \E h \in Handlers :
        /\ pc[h] = "hm_return"
        /\ msg[h].gate = "punished"
        /\ msg[h].norecord
        /\ StoredCount(violations, user[h]) = 1
        /\ spam_logs = <<[user_id |-> user[h], llm_score |-> msg[h].score,
                          action |-> "warning"]>>

\* C20 (amended): a user enters the platform's ban set only in a handle_spam
\* whose increment_violation returned 3 or more; a handle_spam on count 1
\* leaves the user's standing alone and one on count 2 at most removes the
\* user in the mode that permits rejoining.
C20_BanOnlyFromThird ==
    [][\A u \in Users :
          /\ (chat'[u] = "banned" /\ chat[u] # "banned") =>
                \E h \in Handlers :
                    pc[h] = "hs_punish" /\ user[h] = u /\ new_count[h] >= 3
          /\ \A h \in Handlers :
                (pc[h] = "hs_punish" /\ pc'[h] # "hs_punish" /\ user[h] = u) =>
                    /\ new_count[h] = 1 => chat'[u] = chat[u]
                    /\ new_count[h] = 2 => chat'[u] \in {chat[u], "kicked"}]_vars

\* C20 as stated: in every state a user in the ban set has 3 or more
\* recorded (unexpired) violations
C20_BannedHasThree ==
    \A u \in Users :
        chat[u] = "banned" => StoredCount(Unexpired(violations, now), u) >= 3

\* a user was kicked on the second violation and banned on the third
C20_Witness ==
    \E u \in Users :
        /\ chat[u] = "banned"
        /\ StoredCount(violations, u) = 3
        /\ \E i \in DOMAIN spam_logs :
                spam_logs[i].user_id = u /\ spam_logs[i].action = "kick"
        /\ \E i \in DOMAIN spam_logs :
                spam_logs[i].user_id = u /\ spam_logs[i].action = "ban"

\* ------------------------------------------------- the stores' claims

\* C26: the violations table holds at most one row of a user, also after
\* two first violations of the user were handled concurrently.
C26_OneRecordPerUser ==
    \A u \in Users : Len(RowsOf(violations, u)) <= 1

\* C27: a write to the api_usage table changes the row of the wall-clock day
\* only; the row of a day that is over is never changed.
C27_OnlyTodayWritten ==
    [][\A d \in DOMAIN api_usage : api_usage'[d] # api_usage[d] => d = now]_vars

\* C28: the count persisted for a day never decreases, across restarts on
\* the day and across increments that interleave with a rollover reload.
C28_PersistedMonotonic ==
    [][\A d \in DOMAIN api_usage : api_usage'[d] >= api_usage[d]]_vars

\* --------------------------------------- the classifier's and errors' claims

\* C22: the score compared with the threshold and the score written to the
\* audit log lie in 0..10: a response score below 0 is compared and logged
\* as 0, one above 10 as 10, and is_spam is that score >= threshold.
C22_ScoreClamped ==
    /\ \A h \in Handlers :
          /\ msg[h].score \in 0..10
          /\ msg[h].resp = "score" =>
                /\ msg[h].raw < 0 => msg[h].score = 0
                /\ msg[h].raw > 10 => msg[h].score = 10
                /\ msg[h].raw \in 0..10 => msg[h].score = msg[h].raw
                /\ msg[h].is_spam <=> msg[h].score >= spam_threshold
    /\ \A i \in DOMAIN spam_logs : spam_logs[i].llm_score \in 0..10

\* a response scored above the range was compared and logged as 10
C22_Witness ==
    \E h \in Handlers :
        /\ pc[h] = "hm_return"
        /\ msg[h].gate = "punished"
        /\ msg[h].raw > 10
        /\ spam_logs[Len(spam_logs)].llm_score = 10

\* C23: a response whose score lies outside 0..10 is treated as not spam and
\* leads to no punishment.
C23_OutOfRangeFailsOpen ==
    \A h \in Handlers :
        (msg[h].resp = "score" /\ msg[h].raw \notin 0..10) =>
            /\ ~msg[h].is_spam
            /\ pc[h] \in {"rl_commit", "hm_return"}
            /\ msg[h].requested = {}

\* C24: increment adds exactly one to the in-memory count whether or not its
\* database write succeeds; an error of the write leaves increment and is
\* handled by its caller, which ends the message; the count is lowered by
\* nothing but the reload of a new day, and every later answer of
\* can_call_api and get_remaining is computed from it.
C24_FailedWriteKeepsCount ==
    [][/\ \A h \in Handlers :
            /\ (pc[h] = "classify" /\ pc'[h] # "classify") =>
                    /\ rl_count' = rl_count + 1
                    /\ pc'[h] = "rl_commit"
                    /\ msg'[h].write # "ok" => api_usage' = api_usage
            /\ (pc[h] = "rl_commit" /\ pc'[h] # "rl_commit" /\ msg[h].write # "ok") =>
                    /\ pc'[h] = "hm_return"
                    /\ msg'[h].gate = "error"
                    /\ rl_count' = rl_count
       /\ rl_count' < rl_count =>
            \E h \in Handlers : pc[h] = "rl_refresh" /\ pc'[h] # "rl_refresh"
       /\ (answer' # answer /\ answer'.fn = "can_call_api") =>
            (answer'.value = 1 <=> rl_count' < daily_limit)
       /\ (remaining' # remaining) =>
            remaining'.value = (IF rl_count' < daily_limit
                                THEN daily_limit - rl_count' ELSE 0)]_vars

\* every write of the day failed, the store holds no row for today, and
\* can_call_api refused a message on the in-memory count
C24_Witness ==
    /\ rl_today = now
    /\ rl_count = daily_limit
    /\ api_usage[now] = -1
    /\ answer.fn = "can_call_api"
    /\ answer.day = now
    /\ answer.value = 0
    /\ \E h \in Handlers : pc[h] = "hm_return" /\ msg[h].gate = "quota"

\* C21: handle_spam is entered, and a ChatAdapter call requested, only for a
\* text or photo message that the classifier scored at or above the
\* threshold, with dry-run off and no error in its handling; a user's
\* standing on the platform, an increase of a user's stored count and a new
\* audit event come only from a step of the handler of such a message of
\* that user; a message whose handling ended in an error (of the quota
\* check, the download or the commit) or whose classification failed has
\* requested no ChatAdapter call and has not run increment_violation.
C21_PunishOnlySpam ==
    /\ [](\A h \in Handlers :
            /\ (\/ pc[h] \in {"iv_cleanup", "iv_select", "iv_stamp", "iv_write",
                              "hs_punish", "hs_log"}
                \/ msg[h].requested # {}) =>
                    /\ msg[h].kind \in {"text", "photo"}
                    /\ msg[h].resp = "score"
                    /\ msg[h].score >= spam_threshold
                    /\ msg[h].write = "ok"
                    /\ ~dry_run
            /\ (\/ msg[h].gate = "error"
                \/ msg[h].resp \in {"local_error", "remote_error", "unparsable", "no_score"}
                \/ msg[h].write \notin {"none", "ok"}) =>
                    /\ msg[h].requested = {}
                    /\ new_count[h] = 0
                    /\ pc[h] \in {"rl_commit", "hm_return"})
    /\ [][\A u \in Users :
            (\/ chat'[u] # chat[u]
             \/ StoredCount(violations', u) > StoredCount(violations, u)
             \/ \E i \in DOMAIN spam_logs' :
                    i > Len(spam_logs) /\ spam_logs'[i].user_id = u) =>
                \E h \in Handlers :
                    /\ user[h] = u
                    /\ pc'[h] # pc[h]
                    /\ msg[h].resp = "score"
                    /\ msg[h].score >= spam_threshold
                    /\ msg[h].write = "ok"
                    /\ ~dry_run]_vars

\* a message scored as spam whose commit failed returns, its sender unpunished
C21_Witness ==
    \E h \in Handlers :
        /\ pc[h] = "hm_return"
        /\ msg[h].gate = "error"
        /\ msg[h].is_spam
        /\ msg[h].write = "sqlite3.Error"
        /\ ~dry_run
        /\ spam_logs = <<>>
        /\ violations = <<>>

\* -------------------------------------------------- the admin commands' claims

\* C25: a command (/stats, /whitelist list, add or remove, /reset_user) sent
\* by a user who is not in admin_ids changes neither the whitelist nor the
\* whitelist saved in config.yaml nor any violation record, and no reply is
\* sent.
C25_NonAdminChangesNothing ==
    [][(cmdCount' # cmdCount /\ cmd'.by \notin admin_ids) =>
            /\ whitelist' = whitelist
            /\ saved' = saved
            /\ violations' = violations
            /\ replies' = replies]_vars

\* a user who is not an admin sent /reset_user for a user who holds a
\* record, after an admin's command was answered
C25_Witness ==
    /\ cmd.name = "reset_user"
    /\ cmd.by \notin admin_ids
    /\ cmd.had
    /\ HasRow(violations, cmd.target)
    /\ replies > 0

\* C30: the audit log is append-only: over every step (of a message's
\* handling with its expiry cleanup, of an admin reset, of a stats query)
\* the events written before are a prefix of the events after.
C30_AuditAppendOnly ==
    [][/\ Len(spam_logs') >= Len(spam_logs)
       /\ SubSeq(spam_logs', 1, Len(spam_logs)) = spam_logs]_vars

\* two events are in the log and an admin has reset the user of one of them
C30_Witness ==
    /\ Len(spam_logs) = 2
    /\ cmd.name = "reset_user"
    /\ cmd.by \in admin_ids
    /\ cmd.had
    /\ ~HasRow(violations, cmd.target)
    /\ \E i \in DOMAIN spam_logs : spam_logs[i].user_id = cmd.target

\* ---------------------------------------------------- the escalation's claim

\* C29: from one state to the next the stored violation count of a user who
\* keeps a record never decreases (the count leaves only by the record
\* becoming absent, through expiry cleanup or a reset), also while several
\* spam events of the user are in flight.
C29_MonotonicCount ==
    [][\A u \in Users :
          (HasRow(violations, u) /\ HasRow(violations', u)) =>
              StoredCount(violations', u) >= StoredCount(violations, u)]_vars

\* ------------------------------------------- the punishment engine's claims

\* C31: when message.delete() raised a TelegramError, handle_spam still
\* dispatches the call of the tier of the count increment_violation returned
\* (the notice of a warning, the kick, the ban), goes on to log_spam with
\* that tier's action, and the event it appends and returns carries it.
C31_DeleteFailureGoesOn ==
    [][\A h \in Handlers :
          /\ (/\ pc[h] = "hs_punish"
              /\ pc'[h] # "hs_punish"
              /\ "delete" \in msg'[h].failed) =>
                    /\ pc'[h] = "hs_log"
                    /\ action'[h] = (IF new_count[h] = 1 THEN "warning"
                                     ELSE IF new_count[h] = 2 THEN "kick" ELSE "ban")
                    /\ (IF new_count[h] = 1 THEN "notice" ELSE action'[h])
                            \in msg'[h].requested
          /\ (/\ pc[h] = "hs_log"
              /\ pc'[h] # "hs_log"
              /\ "delete" \in msg[h].failed) =>
                    /\ Len(spam_logs') = Len(spam_logs) + 1
                    /\ spam_logs'[Len(spam_logs')].action =
                            (IF new_count[h] = 1 THEN "warning"
                             ELSE IF new_count[h] = 2 THEN "kick" ELSE "ban")]_vars

\* the deletion of a third offence's message failed, and the ban was done
C31_Witness ==
    \E h \in Handlers :
        /\ pc[h] = "hs_log"
        /\ new_count[h] = 3
        /\ msg[h].failed = {"delete"}
        /\ "ban" \in msg[h].requested
        /\ action[h] = "ban"
        /\ chat[user[h]] = "banned"

\* the number of times call c was issued in a sequence of calls
Attempts(seq, c) == Len(SelectSeq(seq, LAMBDA x : x = c))

\* C32: when the notice of a warning could not be delivered, handle_spam has
\* made exactly one attempt to send it, has requested no kick and no ban and
\* changed nobody's standing, has left the ledger as increment_violation
\* wrote it (the user's count is the one it returned), and goes on to
\* log_spam with the action of the warning, which the appended event carries.
C32_WarnFailureSwallowed ==
    [][\A h \in Handlers :
          /\ (/\ pc[h] = "hs_punish"
              /\ pc'[h] # "hs_punish"
              /\ new_count[h] = 1
              /\ "notice" \in msg'[h].failed) =>
                    /\ Attempts(msg'[h].order, "notice") = 1
                    /\ msg'[h].requested \cap {"kick", "ban"} = {}
                    /\ chat' = chat
                    /\ violations' = violations
                    /\ StoredCount(violations', user[h]) = new_count[h]
                    /\ pc'[h] = "hs_log"
                    /\ action'[h] = "warning"
          /\ (/\ pc[h] = "hs_log"
              /\ pc'[h] # "hs_log"
              /\ new_count[h] = 1
              /\ "notice" \in msg[h].failed) =>
                    /\ violations' = violations
                    /\ chat' = chat
                    /\ spam_logs' = Append(spam_logs,
                                           [user_id |-> user[h],
                                            llm_score |-> msg[h].score,
                                            action |-> "warning"])]_vars

\* a warning whose notice was refused has been recorded
C32_Witness ==
    \E h \in Handlers :
        /\ pc[h] = "hs_log"
        /\ new_count[h] = 1
        /\ msg[h].failed = {"notice"}
        /\ msg[h].order = <<"delete", "notice">>
        /\ action[h] = "warning"
        /\ chat[user[h]] = "member"

\* a step of the handling of a message of user v, or a reset of v
StepAbout(v) ==
    \/ \E h \in Handlers : pc'[h] # pc[h] /\ (user[h] = v \/ user'[h] = v)
    \/ pc' = pc /\ now' = now /\ lastOp'[v] # "other"

\* C33: a step of the handling of one user's message (of its
\* increment_violation, of its punishment whatever failed in it) or a reset
\* of that user leaves the unexpired rows of every other user as they are,
\* count and expiry included; rows of another user that it removes had
\* expired.
C33_CrossUserIsolation ==
    [][\A v \in Users :
          ~StepAbout(v) =>
              /\ RowsOf(Unexpired(violations', now), v) = RowsOf(Unexpired(violations, now), v)
              /\ \/ RowsOf(violations', v) = RowsOf(violations, v)
                 \/ RowsOf(violations', v) = RowsOf(Unexpired(violations, now), v)]_vars

\* user 2 holds an unexpired record, written on an earlier day, while the
\* second offence of user 1, whose kick the platform refused, is about to be
\* logged
C33_Witness ==
    \E h \in Handlers :
        /\ pc[h] = "hs_log"
        /\ user[h] = 1
        /\ new_count[h] = 2
        /\ "kick" \in msg[h].failed
        /\ HasRow(Unexpired(violations, now), 2)
        /\ Fetch(violations, 2).reset_at < Fetch(violations, 1).reset_at

C35_HandleOrder ==
    /\ [](\A h \in Handlers :
            /\ InIncrement(h) \/ pc[h] \in {"iv_cleanup", "hs_punish"} =>
                    msg[h].order = <<>>
            /\ msg[h].order # <<>> =>
                    /\ new_count[h] >= 1
                    /\ Len(msg[h].order) \in {2, 3}
                    /\ msg[h].order[1] = "delete"
                    /\ msg[h].order[2] = (IF new_count[h] = 1 THEN "notice"
                                          ELSE IF new_count[h] = 2 THEN "kick"
                                          ELSE "ban")
                    /\ Len(msg[h].order) = 3 =>
                            /\ msg[h].order[2] \in {"kick", "ban"}
                            /\ msg[h].order[3] = "notice")
    /\ [][spam_logs' # spam_logs =>
            \E h \in Handlers :
                /\ pc[h] = "hs_log"
                /\ Len(msg[h].order) >= 2
                /\ msg[h].order[1] = "delete"
                /\ spam_logs' = Append(spam_logs, spam_logs'[Len(spam_logs')])
                /\ spam_logs'[Len(spam_logs')].user_id = user[h]]_vars

\* a ban followed by its notice is about to be logged
C35_Witness ==
    \E h \in Handlers :
        /\ pc[h] = "hs_log"
        /\ msg[h].order = <<"delete", "ban", "notice">>
        /\ Len(spam_logs) = 2

\* C36: the sliding expiry window.  Every stored row has reset_at equal to
\* last_violation_time plus 30 days; an increment_violation that found the
\* user's record writes the time of the call to last_violation_time, that
\* time plus 30 days to reset_at and the count plus one; and a call issued no
\* later than 30 days after the user's last violation finds the record with
\* its count (the cleanup keeps it), so that it returns that count plus one.
C36_SlidingWindow ==
    /\ [](\A i \in DOMAIN violations :
            violations[i].reset_at = violations[i].last_violation_time + 30)
    /\ [][\A h \in Handlers :
            /\ (/\ pc[h] = "iv_cleanup"
                /\ pc'[h] # "iv_cleanup") =>
                    \A i \in DOMAIN violations :
                        (/\ violations[i].user_id = user[h]
                         /\ now <= violations[i].last_violation_time + 30) =>
                                /\ HasRow(violations', user[h])
                                /\ StoredCount(violations', user[h]) =
                                        violations[i].violation_count
                                /\ prior'[h] = violations[i].violation_count
            /\ (/\ pc[h] = "iv_write"
                /\ pc'[h] # "iv_write"
                /\ Alone(h)
                /\ violation[h] # NoViolation) =>
                    /\ cleanupNow[h] <= iv_now[h]
                    /\ iv_now[h] <= now
                    /\ HasRow(violations', user[h])
                    /\ LET r == violations'[FirstRow(violations', user[h])]
                       IN  /\ r.last_violation_time = iv_now[h]
                           /\ r.reset_at = iv_now[h] + 30
                           /\ r.violation_count = violation[h].violation_count + 1
                           /\ r.violation_count = prior[h] + 1
                           /\ new_count'[h] = r.violation_count]_vars

\* the third violation of a user, issued exactly 30 days after the second:
\* the record, at the last instant of its window, was read with its count
C36_Witness ==
    \E h \in Handlers :
        /\ pc[h] = "iv_write"
        /\ violation[h].violation_count = 2
        /\ violation[h].reset_at = cleanupNow[h]
        /\ prior[h] = 2
        /\ iv_now[h] = cleanupNow[h]
        /\ iv_now[h] = 60

\* C37: with dry-run off, a message whose response carried a score at or
\* above the threshold has gone through handle_spam when its handler
\* returns, also when the write of the increment that followed the
\* classification failed.
C37_SpamReachesHandleSpam ==
    \A h \in Handlers :
        (/\ pc[h] = "hm_return"
         /\ ~dry_run
         /\ msg[h].resp = "score"
         /\ msg[h].raw >= spam_threshold) =>
                /\ msg[h].gate = "punished"
                /\ "delete" \in msg[h].requested

\* C38: a reload of the new day's count whose read failed does not leave the
\* limiter on the new day with the count of the day before: whenever no
\* reload is in flight, the in-memory count is a count of the cached day (so
\* that an access on a later day than the count's reloads it first).
C38_FailedReloadConsistent ==
    (\A h \in Handlers : pc[h] # "rl_refresh") =>
        /\ rl_today = countDay
        /\ (answer.fn # "none" /\ answer.day = now) => answer.basis = now

\* C39: when increment_violation returns a count, the table holds, at that
\* moment, a row of the user with that count, also when a reset of the user
\* or a cleanup ran between the call's read and its write; so the tier
\* handle_spam dispatches is the tier of a count the ledger holds.
C39_ReturnedCountIsStored ==
    \A h \in Handlers : pc[h] = "hs_punish" => stored[h] = new_count[h]

====
